---- MODULE Spec2Model ----
(***************************************************************************)
(* Task registry (TaskManager) over a document store (DatabaseHandler).    *)
(*                                                                         *)
(* Strings whose content the code inspects (title, description, due_date,  *)
(* created_at) are sequences of one-character strings, so that str.strip,  *)
(* truthiness and datetime.strptime are computed, not assumed.  Strings    *)
(* that are only compared for equality (priority, status, field names)     *)
(* are TLA+ strings.  A task id (8 hex characters of a uuid4) is an        *)
(* opaque token: a number in 1..NumIds.                                    *)
(***************************************************************************)
EXTENDS Integers, Sequences, FiniteSets, TLC

\* ------------------------------------------------------------------ bounds
\* Number of distinct ids uuid4()[:8] can produce in the model.
NumIds == 2
\* Number of registry calls (after construction) in one behaviour.
MaxOps == 1
MaxLen == 3
MaxTries == 3

Ids == 1..NumIds

\* ----------------------------------------------------------------- strings
Digits == <<"0", "1", "2", "3", "4", "5", "6", "7", "8", "9">>

IsDigit(c) == \E i \in 1..Len(Digits) : Digits[i] = c

DigitVal(c) == (CHOOSE i \in 1..Len(Digits) : Digits[i] = c) - 1

IsSpace(c) == c \in {" ", "\t", "\n", "\r"}

\* Python's None where a string is expected; no string of characters equals it.
None == <<"None">>

\* bool(value) for a str or None.
Truthy(value) == value /= None /\ value /= <<>>

RECURSIVE LStrip(_)
LStrip(s) == IF s /= <<>> /\ IsSpace(Head(s)) THEN LStrip(Tail(s)) ELSE s

RECURSIVE RStrip(_)
RStrip(s) ==
    IF s /= <<>> /\ IsSpace(s[Len(s)]) THEN RStrip(SubSeq(s, 1, Len(s) - 1)) ELSE s

\* str.strip()
Strip(s) == RStrip(LStrip(s))

\* int() of a string of decimal digits
RECURSIVE IntOf(_)
IntOf(s) ==
    IF s = <<>> THEN 0 ELSE 10 * IntOf(SubSeq(s, 1, Len(s) - 1)) + DigitVal(s[Len(s)])

IsLeap(y) == (y % 4 = 0 /\ y % 100 /= 0) \/ y % 400 = 0

DaysInMonth(y, m) ==
    IF m = 2 THEN (IF IsLeap(y) THEN 29 ELSE 28)
    ELSE IF m \in {4, 6, 9, 11} THEN 30 ELSE 31

\* %m of strptime: 1[0-2] | 0[1-9] | [1-9]
MatchesMonth(s) ==
    \/ Len(s) = 2 /\ s[1] = "1" /\ s[2] \in {"0", "1", "2"}
    \/ Len(s) = 2 /\ s[1] = "0" /\ IsDigit(s[2]) /\ s[2] /= "0"
    \/ Len(s) = 1 /\ IsDigit(s[1]) /\ s[1] /= "0"

\* %d of strptime: 3[0-1] | [1-2]\d | 0[1-9] | [1-9] | " "[1-9]
MatchesDay(s) ==
    \/ Len(s) = 2 /\ s[1] = "3" /\ s[2] \in {"0", "1"}
    \/ Len(s) = 2 /\ s[1] \in {"1", "2"} /\ IsDigit(s[2])
    \/ Len(s) = 2 /\ s[1] \in {"0", " "} /\ IsDigit(s[2]) /\ s[2] /= "0"
    \/ Len(s) = 1 /\ IsDigit(s[1]) /\ s[1] /= "0"

\* datetime.strptime(value, '%Y-%m-%d') returns (TRUE) or raises ValueError
\* (FALSE): the whole string must match \d\d\d\d-%m-%d and name a real day.
StrptimeOk(value) ==
    \E lm \in 1..2, ld \in 1..2 :
        /\ Len(value) = 4 + 1 + lm + 1 + ld
        /\ \A i \in 1..4 : IsDigit(value[i])
        /\ value[5] = "-"
        /\ value[6 + lm] = "-"
        /\ LET y == IntOf(SubSeq(value, 1, 4))
               ms == SubSeq(value, 6, 5 + lm)
               ds == SubSeq(value, 7 + lm, 6 + lm + ld)
           IN  /\ MatchesMonth(ms)
               /\ MatchesDay(ds)
               /\ y >= 1
               /\ IntOf(LStrip(ds)) <= DaysInMonth(y, IntOf(ms))

\* ----------------------------------------------------------------- Task
VALID_PRIORITIES == <<"Low", "Medium", "High">>
VALID_STATUSES == <<"Pending", "In Progress", "Completed">>

Range(s) == {s[i] : i \in 1..Len(s)}

TaskFields ==
    {"task_id", "title", "description", "due_date", "priority", "status", "created_at"}

\* Task.__init__ as it would be if it assigned title through the setter's
\* strip().
TaskInit_StripsTitle(task_id, title, description, due_date, priority, status, created_at, now) ==
    [task_id |-> task_id, title |-> Strip(title), description |-> description,
     due_date |-> due_date, priority |-> priority, status |-> status,
     created_at |-> IF Truthy(created_at) THEN created_at ELSE now]

\* Task.__init__: stores every argument as given; only created_at has a
\* default (the clock, when the argument is None or empty).
TaskInit(task_id, title, description, due_date, priority, status, created_at, now) ==
    [task_id |-> task_id, title |-> title, description |-> description,
     due_date |-> due_date, priority |-> priority, status |-> status,
     created_at |-> IF Truthy(created_at) THEN created_at ELSE now]

\* to_dict leaving created_at empty.
to_dict_NoCreatedAt(task) ==
    [task_id |-> task.task_id, title |-> task.title,
     description |-> task.description, due_date |-> task.due_date,
     priority |-> task.priority, status |-> task.status,
     created_at |-> <<>>]

\* Task.to_dict
to_dict(task) ==
    [task_id |-> task.task_id, title |-> task.title,
     description |-> task.description, due_date |-> task.due_date,
     priority |-> task.priority, status |-> task.status,
     created_at |-> task.created_at]

\* data[...] raises KeyError in Task.from_dict when a key is missing.
from_dict_raises(data) == ~(TaskFields \subseteq DOMAIN data)

\* Task.from_dict
from_dict(data, now) ==
    TaskInit(data.task_id, data.title, data.description, data.due_date,
             data.priority, data.status, data.created_at, now)

\* ------------------------------------------------------- DatabaseHandler
\* The collection is the sequence of its documents in natural order; find
\* projects _id away, so a document is the mapping insert_task was given.
\* `fails` is the driver raising PyMongoError (store unavailable).

HasId(doc, task_id) == "task_id" \in DOMAIN doc /\ doc.task_id = task_id

Matching(coll, task_id) == {i \in 1..Len(coll) : HasId(coll[i], task_id)}

\* index of the document update_one / delete_one act on: the first match
FirstMatch(coll, task_id) ==
    CHOOSE i \in Matching(coll, task_id) : \A j \in Matching(coll, task_id) : i <= j

RemoveAt(s, i) == SubSeq(s, 1, i - 1) \o SubSeq(s, i + 1, Len(s))

\* DatabaseHandler.insert_task
db_insert_task(coll, task_data, fails) ==
    IF fails THEN [coll |-> coll, ret |-> FALSE]
    ELSE [coll |-> Append(coll, task_data), ret |-> TRUE]

\* DatabaseHandler.get_all_tasks
db_get_all_tasks(coll, fails) == IF fails THEN <<>> ELSE coll

\* {'$set': update_data} applied to one document
SetFields(doc, update_data) ==
    [k \in DOMAIN doc \cup DOMAIN update_data |->
        IF k \in DOMAIN update_data THEN update_data[k] ELSE doc[k]]

\* DatabaseHandler.update_task: True only when a document matched and
\* $set changed it (modified_count > 0).
db_update_task(coll, task_id, update_data, fails) ==
    IF fails \/ Matching(coll, task_id) = {} THEN [coll |-> coll, ret |-> FALSE]
    ELSE LET i == FirstMatch(coll, task_id)
             doc == SetFields(coll[i], update_data)
         IN  [coll |-> [coll EXCEPT ![i] = doc], ret |-> doc /= coll[i]]

\* DatabaseHandler.delete_task: True only when a document was deleted
\* (deleted_count > 0).
db_delete_task(coll, task_id, fails) ==
    IF fails \/ Matching(coll, task_id) = {} THEN [coll |-> coll, ret |-> FALSE]
    ELSE [coll |-> RemoveAt(coll, FirstMatch(coll, task_id)), ret |-> TRUE]

\* ------------------------------------------------- TaskManager._tasks (dict)
\* A dict keeps insertion order: a sequence of Tasks with distinct task_id.
Keys(d) == {d[i].task_id : i \in 1..Len(d)}

IndexOf(d, task_id) == CHOOSE i \in 1..Len(d) : d[i].task_id = task_id

\* d[key]
Item(d, task_id) == d[IndexOf(d, task_id)]

\* d[task.task_id] = task: an existing key keeps its position
SetItem(d, task) ==
    IF task.task_id \in Keys(d) THEN [d EXCEPT ![IndexOf(d, task.task_id)] = task]
    ELSE Append(d, task)

\* a dict that drops its last item whatever the key (popitem)
DelItem_Last(d, task_id) == RemoveAt(d, Len(d))

\* del d[key]
DelItem(d, task_id) == RemoveAt(d, IndexOf(d, task_id))

\* TaskManager.get_all_tasks: list(self._tasks.values())
get_all_tasks(d) == d

\* TaskManager.get_task_by_id: an Optional[Task] is <<>> (None) or <<task>>
get_task_by_id(d, task_id) ==
    IF task_id \in Keys(d) THEN <<Item(d, task_id)>> ELSE <<>>

\* ------------------------------------------------------------ TaskManager
\* Task setters (task.py): each returns the Task after the assignment and
\* whether the setter raised ValueError (the Task is then as it was).
set_title(task, value) ==
    IF ~Truthy(value) \/ ~Truthy(Strip(value)) THEN [task |-> task, raised |-> TRUE]
    ELSE [task |-> [task EXCEPT !.title = Strip(value)], raised |-> FALSE]

set_description(task, value) ==
    [task |-> [task EXCEPT !.description = Strip(value)], raised |-> FALSE]

set_due_date(task, value) ==
    IF StrptimeOk(value) THEN [task |-> [task EXCEPT !.due_date = value], raised |-> FALSE]
    ELSE [task |-> task, raised |-> TRUE]

set_priority(task, value) ==
    IF value \in Range(VALID_PRIORITIES)
    THEN [task |-> [task EXCEPT !.priority = value], raised |-> FALSE]
    ELSE [task |-> task, raised |-> TRUE]

set_status(task, value) ==
    IF value \in Range(VALID_STATUSES)
    THEN [task |-> [task EXCEPT !.status = value], raised |-> FALSE]
    ELSE [task |-> task, raised |-> TRUE]

SetField(task, field, value) ==
    CASE field = "title" -> set_title(task, value)
      [] field = "description" -> set_description(task, value)
      [] field = "due_date" -> set_due_date(task, value)
      [] field = "priority" -> set_priority(task, value)
      [] field = "status" -> set_status(task, value)

\* The fields update_task looks for in kwargs, in the order of its if-blocks.
UpdateFields == <<"title", "description", "due_date", "priority", "status">>

\* The if-blocks of update_task from the n-th on, run on the live Task:
\* each present field goes through its setter and then into update_data;
\* the first setter that raises ends the run with what was assigned so far.
RECURSIVE ApplyUpdates(_, _, _, _)
ApplyUpdates(task, kwargs, update_data, n) ==
    IF n > Len(UpdateFields) THEN [task |-> task, update_data |-> update_data, raised |-> FALSE]
    ELSE LET field == UpdateFields[n] IN
         IF field \notin DOMAIN kwargs THEN ApplyUpdates(task, kwargs, update_data, n + 1)
         ELSE LET r == SetField(task, field, kwargs[field]) IN
              IF r.raised THEN [task |-> r.task, update_data |-> update_data, raised |-> TRUE]
              ELSE ApplyUpdates(r.task, kwargs,
                                [k \in DOMAIN update_data \cup {field} |->
                                    IF k = field THEN kwargs[field] ELSE update_data[k]],
                                n + 1)

\* the validation without the whitespace test on title
AddTaskValid_NoStrip(title, due_date, priority) ==
    /\ Truthy(title)
    /\ priority \in Range(VALID_PRIORITIES)
    /\ StrptimeOk(due_date)

\* The validation at the head of add_task; FALSE is ValueError raised.
AddTaskValid(title, due_date, priority) ==
    /\ Truthy(title) /\ Truthy(Strip(title))
    /\ priority \in Range(VALID_PRIORITIES)
    /\ StrptimeOk(due_date)

\* add_task putting the Task into the dict before it looks at the answer
AddTaskCommit_Always(d, task, inserted) == SetItem(d, task)

\* The branch of add_task on insert_task's answer: the Task enters the
\* dict only when the insert returned True.
AddTaskCommit(d, task, inserted) == IF inserted THEN SetItem(d, task) ELSE d

\* TaskManager.add_task, with the id its generation loop ended on
\* (task_id, not a key of d), the clock reading and the store's answer.
\* port is the sequence of DatabaseHandler calls the call made.
AddTaskResult(d, coll, title, description, due_date, priority, task_id, now, fails) ==
    IF ~AddTaskValid(title, due_date, priority)
    THEN [tasks |-> d, store |-> coll, ret |-> <<>>, port |-> <<>>]
    ELSE LET task == TaskInit(task_id, title, description, due_date, priority,
                              "Pending", None, now)
             w == db_insert_task(coll, to_dict(task), fails)
         IN  [tasks |-> AddTaskCommit(d, task, w.ret),
              store |-> w.coll,
              ret |-> IF w.ret THEN <<task>> ELSE <<>>,
              port |-> <<[name |-> "insert_task", task_id |-> task_id,
                          data |-> to_dict(task), ret |-> w.ret]>>]

\* update_task without the `if update_data` test: the store is called with
\* an empty update_data too
UpdateKnown_WritesEmpty(d, coll, task_id, kwargs, fails) ==
    LET a == ApplyUpdates(Item(d, task_id), kwargs, <<>>, 1)
        live == SetItem(d, a.task)
    IN  IF a.raised
        THEN [tasks |-> live, store |-> coll, ret |-> FALSE, port |-> <<>>]
        ELSE LET w == db_update_task(coll, task_id, a.update_data, fails)
             IN  [tasks |-> live, store |-> w.coll, ret |-> w.ret,
                  port |-> <<[name |-> "update_task", task_id |-> task_id,
                              data |-> a.update_data, ret |-> w.ret]>>]

\* update_task assigning every keyword it is given, created_at included
UpdateKnown_SetsAnyKey(d, coll, task_id, kwargs, fails) ==
    LET a == ApplyUpdates(Item(d, task_id), kwargs, <<>>, 1)
        t == IF "created_at" \in DOMAIN kwargs
             THEN [a.task EXCEPT !.created_at = kwargs.created_at] ELSE a.task
        live == SetItem(d, t)
    IN  IF a.raised \/ DOMAIN a.update_data = {}
        THEN [tasks |-> live, store |-> coll, ret |-> FALSE, port |-> <<>>]
        ELSE LET w == db_update_task(coll, task_id, a.update_data, fails)
             IN  [tasks |-> live, store |-> w.coll, ret |-> w.ret,
                  port |-> <<[name |-> "update_task", task_id |-> task_id,
                              data |-> a.update_data, ret |-> w.ret]>>]

\* update_task once the id was found in the dict: the setters run on the
\* live Task, and the store is called only when no setter raised and
\* update_data is not empty.
UpdateKnown(d, coll, task_id, kwargs, fails) ==
    LET a == ApplyUpdates(Item(d, task_id), kwargs, <<>>, 1)
        live == SetItem(d, a.task)
    IN  IF a.raised \/ DOMAIN a.update_data = {}
        THEN [tasks |-> live, store |-> coll, ret |-> FALSE, port |-> <<>>]
        ELSE LET w == db_update_task(coll, task_id, a.update_data, fails)
             IN  [tasks |-> live, store |-> w.coll, ret |-> w.ret,
                  port |-> <<[name |-> "update_task", task_id |-> task_id,
                              data |-> a.update_data, ret |-> w.ret]>>]

\* update_task without the lookup in the dict: an unknown id goes to the
\* store with kwargs as they came
UpdateTaskResult_NoLookup(d, coll, task_id, kwargs, fails) ==
    IF task_id \notin Keys(d)
    THEN LET w == db_update_task(coll, task_id, kwargs, fails)
         IN  [tasks |-> d, store |-> w.coll, ret |-> w.ret,
              port |-> <<[name |-> "update_task", task_id |-> task_id,
                          data |-> kwargs, ret |-> w.ret]>>]
    ELSE UpdateKnown(d, coll, task_id, kwargs, fails)

\* TaskManager.update_task
UpdateTaskResult(d, coll, task_id, kwargs, fails) ==
    IF task_id \notin Keys(d)
    THEN [tasks |-> d, store |-> coll, ret |-> FALSE, port |-> <<>>]
    ELSE UpdateKnown(d, coll, task_id, kwargs, fails)

\* mark_completed passing the wrong status
MarkCompletedResult_InProgress(d, coll, task_id, fails) ==
    UpdateTaskResult(d, coll, task_id, [k \in {"status"} |-> "In Progress"], fails)

\* TaskManager.mark_completed
MarkCompletedResult(d, coll, task_id, fails) ==
    UpdateTaskResult(d, coll, task_id, [k \in {"status"} |-> "Completed"], fails)

\* delete_task removing the entry before it asks the store
DeleteTaskResult_DeletesFirst(d, coll, task_id, fails) ==
    IF task_id \notin Keys(d)
    THEN [tasks |-> d, store |-> coll, ret |-> FALSE, port |-> <<>>]
    ELSE LET w == db_delete_task(coll, task_id, fails)
         IN  [tasks |-> DelItem(d, task_id), store |-> w.coll, ret |-> w.ret,
              port |-> <<[name |-> "delete_task", task_id |-> task_id,
                          data |-> <<>>, ret |-> w.ret]>>]

\* TaskManager.delete_task
DeleteTaskResult(d, coll, task_id, fails) ==
    IF task_id \notin Keys(d)
    THEN [tasks |-> d, store |-> coll, ret |-> FALSE, port |-> <<>>]
    ELSE LET w == db_delete_task(coll, task_id, fails)
             p == <<[name |-> "delete_task", task_id |-> task_id,
                     data |-> <<>>, ret |-> w.ret]>>
         IN  IF w.ret
             THEN [tasks |-> DelItem(d, task_id), store |-> w.coll, ret |-> TRUE, port |-> p]
             ELSE [tasks |-> d, store |-> w.coll, ret |-> FALSE, port |-> p]

\* A read that asks the store as well.
ReadResult_AsksStore(d, coll, value) ==
    [tasks |-> d, store |-> coll, ret |-> value,
     port |-> <<[name |-> "get_all_tasks", task_id |-> 0, data |-> <<>>, ret |-> TRUE]>>]

\* What a method that only reads self._tasks leaves behind: dict and store
\* as they were, no DatabaseHandler call, and its value returned.
ReadResult(d, coll, value) == [tasks |-> d, store |-> coll, ret |-> value, port |-> <<>>]

\* filter_value is a str or None. Where it is compared with due_date it is a
\* sequence of characters (or None); where it is compared with priority or
\* status, or with nothing at all, it is a TLA+ string and "" stands for
\* both None and the empty string.
ValueTruthy(filter_by, filter_value) ==
    IF filter_by = "due_date" THEN Truthy(filter_value) ELSE filter_value /= ""

\* The chain with its status branch reading the priority.
FilterMatches_StatusReadsPriority(task, filter_by, filter_value) ==
    \/ filter_by = "priority" /\ task.priority = filter_value
    \/ filter_by = "status" /\ task.priority = filter_value
    \/ filter_by = "due_date" /\ task.due_date = filter_value

\* the if / elif chain in the loop of filter_tasks
FilterMatches(task, filter_by, filter_value) ==
    \/ filter_by = "priority" /\ task.priority = filter_value
    \/ filter_by = "status" /\ task.status = filter_value
    \/ filter_by = "due_date" /\ task.due_date = filter_value

\* the loop of filter_tasks from the n-th task on
RECURSIVE FilterLoop(_, _, _, _, _)
FilterLoop(all, filter_by, filter_value, n, filtered_tasks) ==
    IF n > Len(all) THEN filtered_tasks
    ELSE FilterLoop(all, filter_by, filter_value, n + 1,
                    IF FilterMatches(all[n], filter_by, filter_value)
                    THEN Append(filtered_tasks, all[n]) ELSE filtered_tasks)

\* filter_tasks without its early return: the scan always runs.
filter_tasks_AlwaysScans(d, filter_by, filter_value) ==
    FilterLoop(get_all_tasks(d), filter_by, filter_value, 1, <<>>)

\* TaskManager.filter_tasks; filter_by "" is None or the empty string
filter_tasks(d, filter_by, filter_value) ==
    IF filter_by = "" \/ ~ValueTruthy(filter_by, filter_value) THEN get_all_tasks(d)
    ELSE FilterLoop(get_all_tasks(d), filter_by, filter_value, 1, <<>>)

\* The characters of dates and timestamps in code point order: Python
\* compares two str character by character by code point.
CodePoints == <<" ", "-", "/", "0", "1", "2", "3", "4", "5", "6", "7", "8", "9", ":">>

Ord(c) == CHOOSE i \in 1..Len(CodePoints) : CodePoints[i] = c

\* a < b for two str
RECURSIVE StrLess(_, _)
StrLess(a, b) ==
    IF b = <<>> THEN FALSE
    ELSE IF a = <<>> THEN TRUE
    ELSE IF Head(a) = Head(b) THEN StrLess(Tail(a), Tail(b))
    ELSE Ord(Head(a)) < Ord(Head(b))

\* priority_order with unknown priorities ranked above High
priority_order_UnknownLast(priority) ==
    CASE priority = "Low" -> 1
      [] priority = "Medium" -> 2
      [] priority = "High" -> 3
      [] OTHER -> 4

\* priority_order.get(priority, 0)
priority_order(priority) ==
    CASE priority = "Low" -> 1
      [] priority = "Medium" -> 2
      [] priority = "High" -> 3
      [] OTHER -> 0

\* the comparison value sort_tasks takes from a task
SortValue(task, sort_by) ==
    IF sort_by = "priority" THEN priority_order(task.priority)
    ELSE IF sort_by = "created_at" THEN task.created_at
    ELSE task.due_date

\* x < y on comparison values: ints for priority, str otherwise
ValueLess(sort_by, x, y) == IF sort_by = "priority" THEN x < y ELSE StrLess(x, y)

\* The test with >= and <=: equal elements change places.
ShouldShift_NonStrict(sort_by, reverse, compare_value, key_value) ==
    \/ ~reverse /\ ~ValueLess(sort_by, compare_value, key_value)
    \/ reverse /\ ~ValueLess(sort_by, key_value, compare_value)

\* the test of the inner loop: the element at j moves one place up
ShouldShift(sort_by, reverse, compare_value, key_value) ==
    \/ ~reverse /\ ValueLess(sort_by, key_value, compare_value)
    \/ reverse /\ ValueLess(sort_by, compare_value, key_value)

\* the inner while loop (j counts from 1 here): shifts while the test
\* holds, then drops key_task into the gap
RECURSIVE InsertKey(_, _, _, _, _)
InsertKey(sorted_tasks, j, key_task, sort_by, reverse) ==
    IF j >= 1 /\ ShouldShift(sort_by, reverse, SortValue(sorted_tasks[j], sort_by),
                            SortValue(key_task, sort_by))
    THEN InsertKey([sorted_tasks EXCEPT ![j + 1] = sorted_tasks[j]], j - 1,
                   key_task, sort_by, reverse)
    ELSE [sorted_tasks EXCEPT ![j + 1] = key_task]

\* the outer for loop from index i on
RECURSIVE SortLoop(_, _, _, _)
SortLoop(sorted_tasks, i, sort_by, reverse) ==
    IF i > Len(sorted_tasks) THEN sorted_tasks
    ELSE SortLoop(InsertKey(sorted_tasks, i - 1, sorted_tasks[i], sort_by, reverse),
                  i + 1, sort_by, reverse)

\* TaskManager.sort_tasks: a sorted copy of the list it is given
sort_tasks(list, sort_by, reverse) ==
    IF list = <<>> THEN <<>> ELSE SortLoop(list, 2, sort_by, reverse)

\* The for loop of _load_tasks_from_db over tasks_data from the n-th
\* record on: a record from_dict cannot read raises, and the except
\* clause around the loop keeps what was loaded before it.
RECURSIVE LoadLoop(_, _, _, _)
LoadLoop(d, tasks_data, n, now) ==
    IF n > Len(tasks_data) THEN [tasks |-> d, raised |-> FALSE]
    ELSE IF from_dict_raises(tasks_data[n]) THEN [tasks |-> d, raised |-> TRUE]
    ELSE LoadLoop(SetItem(d, from_dict(tasks_data[n], now)), tasks_data, n + 1, now)

\* ------------------------------------------------------------------ inputs
\* "2024-01-10", "2024-01-05", "2024-1-5" (accepted by strptime),
\* "2024-02-30" (no such day), "01/10/2024" (wrong format)
Date_0110 == <<"2", "0", "2", "4", "-", "0", "1", "-", "1", "0">>
Date_0105 == <<"2", "0", "2", "4", "-", "0", "1", "-", "0", "5">>
Date_15 == <<"2", "0", "2", "4", "-", "1", "-", "5">>
Date_0230 == <<"2", "0", "2", "4", "-", "0", "2", "-", "3", "0">>
Date_Slash == <<"0", "1", "/", "1", "0", "/", "2", "0", "2", "4">>

\* readings of datetime.now().strftime('%Y-%m-%d %H:%M:%S')
Now_1 == <<"2", "0", "2", "4", "-", "0", "1", "-", "0", "1", " ", "0", "9", ":", "0", "0", ":", "0", "0">>
Now_2 == <<"2", "0", "2", "4", "-", "0", "1", "-", "0", "1", " ", "0", "9", ":", "0", "0", ":", "0", "1">>
Timestamps == {Now_1, Now_2}

\* what the caller passes to add_task
AddTitles == {<<>>, <<" ", " ">>, <<" ", "A">>}
AddDescriptions == {<<"d">>}
AddDueDates == {Date_0110, Date_0230}
AddPriorities == {"Low", "Urgent"}

\* what the caller passes to update_task, per keyword; created_at is a
\* keyword update_task does not look for
UpdateValues ==
    [title |-> <<<<" ">>, <<"B", " ">>>>,
     description |-> <<<<"e", " ">>>>,
     due_date |-> <<Date_15, Date_Slash>>,
     priority |-> <<"High", "low">>,
     status |-> <<"Completed", "Done">>,
     created_at |-> <<Now_2>>]

\* documents found in the collection when the program starts
Doc_1 ==
    [task_id |-> 1, title |-> <<"A">>, description |-> <<>>, due_date |-> Date_0105,
     priority |-> "Medium", status |-> "Pending", created_at |-> Now_1]
\* a document whose priority is outside the valid set
Doc_Urgent ==
    [task_id |-> 2, title |-> <<"U">>, description |-> <<>>, due_date |-> Date_0110,
     priority |-> "Urgent", status |-> "In Progress", created_at |-> Now_1]
\* a document without the status key
Doc_NoStatus ==
    [task_id |-> 2, title |-> <<"N">>, description |-> <<>>, due_date |-> Date_0110,
     priority |-> "Low", created_at |-> Now_1]

\* a Completed task as add_task('B ', '', '2024-1-5', 'High') and
\* mark_completed leave it in the collection: the title is stored as passed
Doc_Spaced ==
    [task_id |-> 1, title |-> <<"B", " ">>, description |-> <<>>, due_date |-> Date_15,
     priority |-> "High", status |-> "Completed", created_at |-> Now_1]

InitStores == {<<>>, <<Doc_1>>, <<Doc_1, Doc_Urgent>>, <<Doc_NoStatus, Doc_1>>, <<Doc_Spaced>>}

\* ------------------------------------------------------------------- state
\* filter_by: None or "" (both ""), the three fields, and a name that
\* filter_tasks does not know
FilterFields == {"", "priority", "status", "due_date", "title"}

FilterValues(filter_by) ==
    CASE filter_by = "priority" -> {"", "High", "Low", "Urgent"}
      [] filter_by = "status" -> {"", "Pending", "Completed"}
      [] filter_by = "due_date" -> {None, <<>>, Date_0110, Date_0105}
      [] OTHER -> {"", "High"}

\* sort_by: the three fields, and a name that sort_tasks does not know
SortFields == {"due_date", "priority", "created_at", "title"}

VARIABLES
    tasks,    \* TaskManager._tasks
    store,    \* the tasks collection behind DatabaseHandler
    loaded,   \* "no" before TaskManager.__init__, then how its load ended
    call,     \* the call in hand on the TaskManager, with its arguments
    ret,      \* what that call returned
    port,     \* the DatabaseHandler calls that call made
    pre,      \* tasks and store as they were when that call began
    nops      \* calls made so far

vars == <<tasks, store, loaded, call, ret, port, pre, nops>>

NoCall == [op |-> "none"]
NoPre == [tasks |-> <<>>, store |-> <<>>]

Init ==
    /\ tasks = <<>>
    /\ store \in InitStores
    /\ loaded = "no"
    /\ call = NoCall
    /\ ret = FALSE
    /\ port = <<>>
    /\ pre = NoPre
    /\ nops = 0

\* TaskManager.__init__: _load_tasks_from_db
load_tasks_from_db ==
    /\ loaded = "no"
    /\ \E fails \in BOOLEAN, now \in Timestamps :
         LET r == LoadLoop(<<>>, db_get_all_tasks(store, fails), 1, now) IN
         /\ tasks' = r.tasks
         /\ loaded' = IF fails THEN "find_failed"
                      ELSE IF r.raised THEN "from_dict_failed" ELSE "complete"
         /\ port' = <<[name |-> "get_all_tasks", task_id |-> 0, data |-> <<>>, ret |-> ~fails]>>
    /\ call' = [op |-> "init"]
    /\ ret' = FALSE
    /\ pre' = [tasks |-> tasks, store |-> store]
    /\ UNCHANGED <<store, nops>>

\* The menu loop of the CLI: the call in hand has returned and its result
\* has been shown; the next choice is read.
display_menu ==
    /\ call /= NoCall
    /\ call.op /= "add_task:generate_id"
    /\ call' = NoCall
    /\ ret' = FALSE
    /\ port' = <<>>
    /\ pre' = NoPre
    /\ UNCHANGED <<tasks, store, loaded, nops>>

Ready == loaded /= "no" /\ call = NoCall /\ nops < MaxOps

Finish(r) ==
    /\ tasks' = r.tasks
    /\ store' = r.store
    /\ ret' = r.ret
    /\ port' = r.port
    /\ pre' = [tasks |-> tasks, store |-> store]
    /\ nops' = nops + 1
    /\ UNCHANGED loaded

\* add_task: invalid arguments return before an id is generated; otherwise
\* the loop `while task_id in self._tasks` ends on an id that is not a key
\* (and does not end when every id is a key).
add_task ==
    /\ Ready
    /\ \E title \in AddTitles, description \in AddDescriptions,
          due_date \in AddDueDates, priority \in AddPriorities,
          task_id \in Ids, now \in Timestamps, fails \in BOOLEAN :
         /\ AddTaskValid(title, due_date, priority) => task_id \notin Keys(tasks)
         /\ call' = [op |-> "add_task", title |-> title, description |-> description,
                     due_date |-> due_date, priority |-> priority]
         /\ Finish(AddTaskResult(tasks, store, title, description, due_date,
                                 priority, task_id, now, fails))

\* A call that only reads: like Finish, but it is no change to count.
Answer(r) ==
    /\ tasks' = r.tasks
    /\ store' = r.store
    /\ ret' = r.ret
    /\ port' = r.port
    /\ pre' = [tasks |-> tasks, store |-> store]
    /\ UNCHANGED <<loaded, nops>>

Idle == loaded /= "no" /\ call = NoCall

call_get_all_tasks ==
    /\ Idle
    /\ call' = [op |-> "get_all_tasks"]
    /\ Answer(ReadResult(tasks, store, get_all_tasks(tasks)))

call_get_task_by_id ==
    /\ Idle
    /\ \E task_id \in Ids :
         /\ call' = [op |-> "get_task_by_id", task_id |-> task_id]
         /\ Answer(ReadResult(tasks, store, get_task_by_id(tasks, task_id)))

call_filter_tasks ==
    /\ Idle
    /\ \E filter_by \in FilterFields :
         \E filter_value \in FilterValues(filter_by) :
           /\ call' = [op |-> "filter_tasks", filter_by |-> filter_by,
                       filter_value |-> filter_value]
           /\ Answer(ReadResult(tasks, store, filter_tasks(tasks, filter_by, filter_value)))

\* sort_tasks(self.get_all_tasks(), sort_by, reverse), as the CLI calls it
call_sort_tasks ==
    /\ Idle
    /\ \E sort_by \in SortFields, reverse \in BOOLEAN :
         /\ call' = [op |-> "sort_tasks", tasks |-> get_all_tasks(tasks),
                     sort_by |-> sort_by, reverse |-> reverse]
         /\ Answer(ReadResult(tasks, store,
                              sort_tasks(get_all_tasks(tasks), sort_by, reverse)))

\* the keyword arguments of one update_task call
KwargsOf(D, c) == [k \in D |-> UpdateValues[k][c[k]]]

update_task ==
    /\ Ready
    /\ \E task_id \in Ids, D \in SUBSET DOMAIN UpdateValues, fails \in BOOLEAN :
         \E c \in [D -> 1..2] :
           /\ \A k \in D : c[k] <= Len(UpdateValues[k])
           /\ call' = [op |-> "update_task", task_id |-> task_id,
                       kwargs |-> KwargsOf(D, c)]
           /\ Finish(UpdateTaskResult(tasks, store, task_id, KwargsOf(D, c), fails))

mark_completed ==
    /\ Ready
    /\ \E task_id \in Ids, fails \in BOOLEAN :
         /\ call' = [op |-> "mark_completed", task_id |-> task_id]
         /\ Finish(MarkCompletedResult(tasks, store, task_id, fails))

delete_task ==
    /\ Ready
    /\ \E task_id \in Ids, fails \in BOOLEAN :
         /\ call' = [op |-> "delete_task", task_id |-> task_id]
         /\ Finish(DeleteTaskResult(tasks, store, task_id, fails))

Next ==
    \/ load_tasks_from_db
    \/ display_menu
    \/ add_task
    \/ update_task
    \/ mark_completed
    \/ delete_task
    \/ call_get_all_tasks
    \/ call_get_task_by_id
    \/ call_filter_tasks
    \/ call_sort_tasks

Spec == Init /\ [][Next]_vars

\* ------------------------------------------ Reading a registry as it stands
\* A third specification: the registry holds up to MaxLen of these tasks,
\* in any order, each persisted, and is only read.
Task_A == TaskInit(1, <<"A">>, <<>>, Date_0110, "High", "Pending", None, Now_2)
Task_B == TaskInit(2, <<"B">>, <<>>, Date_0105, "Low", "In Progress", None, Now_1)
Task_C == TaskInit(3, <<"C">>, <<>>, Date_0110, "Medium", "Pending", None, Now_2)
Task_D == TaskInit(4, <<"D">>, <<>>, Date_15, "Low", "Completed", None, Now_1)
Task_E == TaskInit(5, <<"E">>, <<>>, Date_0105, "Critical", "Pending", None, Now_2)
Task_F == TaskInit(6, <<"F">>, <<>>, Date_0110, "Urgent", "Completed", None, Now_1)
TaskPool == {Task_A, Task_B, Task_C, Task_D, Task_E, Task_F}

Registries ==
    {d \in UNION {[1..n -> TaskPool] : n \in 0..MaxLen} :
        \A i, j \in 1..Len(d) : i /= j => d[i].task_id /= d[j].task_id}

DocsOf(d) == [i \in 1..Len(d) |-> to_dict(d[i])]

InitQuery ==
    /\ tasks \in Registries
    /\ store = DocsOf(tasks)
    /\ loaded = "complete"
    /\ call = NoCall
    /\ ret = FALSE
    /\ port = <<>>
    /\ pre = NoPre
    /\ nops = 0

NextQuery ==
    \/ call_get_all_tasks
    \/ call_get_task_by_id
    \/ call_filter_tasks
    \/ call_sort_tasks
    \/ display_menu

SpecQuery == InitQuery /\ [][NextQuery]_vars

\* ------------------------------------------- The id loop of add_task, stepwise
\* A fourth specification: add_task with valid arguments is taken one
\* candidate id at a time. While the loop runs, call.op is
\* "add_task:generate_id", call.task_id is the candidate in hand and
\* call.tries counts the candidates drawn so far, up to MaxTries.

\* a candidate that never collides
Collides_Never(d, task_id) == FALSE

\* `task_id in self._tasks`
Collides(d, task_id) == task_id \in Keys(d)

\* the validation passed; the first candidate is drawn
begin_add_task ==
    /\ Ready
    /\ \E title \in AddTitles, description \in AddDescriptions,
          due_date \in AddDueDates, priority \in AddPriorities, task_id \in Ids :
         /\ AddTaskValid(title, due_date, priority)
         /\ call' = [op |-> "add_task:generate_id", title |-> title,
                     description |-> description, due_date |-> due_date,
                     priority |-> priority, task_id |-> task_id, tries |-> 1]
    /\ UNCHANGED <<tasks, store, loaded, ret, port, pre, nops>>

\* the body of the while loop: the candidate is a key, another is drawn
regenerate_task_id ==
    /\ call.op = "add_task:generate_id"
    /\ Collides(tasks, call.task_id)
    /\ \E task_id \in Ids :
         call' = [call EXCEPT !.task_id = task_id,
                              !.tries = IF @ < MaxTries THEN @ + 1 ELSE @]
    /\ UNCHANGED <<tasks, store, loaded, ret, port, pre, nops>>

\* the loop has ended: the Task is built, inserted and put into the dict
finish_add_task ==
    /\ call.op = "add_task:generate_id"
    /\ ~Collides(tasks, call.task_id)
    /\ \E now \in Timestamps, fails \in BOOLEAN :
         /\ call' = [call EXCEPT !.op = "add_task"]
         /\ Finish(AddTaskResult(tasks, store, call.title, call.description,
                                 call.due_date, call.priority, call.task_id, now, fails))

NextIds ==
    \/ load_tasks_from_db
    \/ display_menu
    \/ begin_add_task
    \/ regenerate_task_id
    \/ finish_add_task

\* uuid4 draws every id again and again: a draw of an unused id is not
\* put off for ever, and the code after the loop runs once the loop ends.
FairIds ==
    /\ SF_vars(regenerate_task_id /\ ~Collides(tasks, call'.task_id))
    /\ WF_vars(finish_add_task)

SpecIds == Init /\ [][NextIds]_vars /\ FairIds

\* ------------------------------------------------- Task on its own (task.py)
\* A second specification: Tasks are constructed and deserialized directly,
\* with arguments from these sets.
CtorTitles == {<<>>, <<"A">>}
CtorDueDates == {Date_0110, Date_15, Date_0230}
CtorPriorities == {"Low", "Urgent"}
CtorStatuses == {"Pending", "Done"}
CtorCreated == {None, <<>>, Now_1}

\* a document whose due date names no day
Doc_BadDate == [Doc_1 EXCEPT !.due_date = Date_0230]
\* a document whose status is outside the valid set
Doc_Done == [Doc_1 EXCEPT !.status = "Done"]
\* a document whose created_at is empty
Doc_NoCreated == [Doc_1 EXCEPT !.created_at = <<>>]

Records == {Doc_1, Doc_Urgent, Doc_NoStatus, Doc_BadDate, Doc_Done, Doc_NoCreated}

InitTask ==
    /\ tasks = <<>>
    /\ store = <<>>
    /\ loaded = "no"
    /\ call = NoCall
    /\ ret = FALSE
    /\ port = <<>>
    /\ pre = NoPre
    /\ nops = 0

\* Task(task_id, title, description, due_date, priority, status, created_at):
\* ret is <<the Task>>; <<>> would be an exception leaving __init__.
task_init ==
    /\ call = NoCall
    /\ \E title \in CtorTitles, due_date \in CtorDueDates, priority \in CtorPriorities,
          status \in CtorStatuses, created_at \in CtorCreated, now \in Timestamps :
         /\ call' = [op |-> "Task", task_id |-> 1, title |-> title, description |-> <<>>,
                     due_date |-> due_date, priority |-> priority, status |-> status,
                     created_at |-> created_at, now |-> now]
         /\ ret' = <<TaskInit(1, title, <<>>, due_date, priority, status, created_at, now)>>
    /\ UNCHANGED <<tasks, store, loaded, port, pre, nops>>

\* Task.from_dict(data): ret is <<the Task>>, or <<>> when it raised.
task_from_dict ==
    /\ call = NoCall
    /\ \E data \in Records, now \in Timestamps :
         /\ call' = [op |-> "from_dict", data |-> data, now |-> now]
         /\ ret' = IF from_dict_raises(data) THEN <<>> ELSE <<from_dict(data, now)>>
    /\ UNCHANGED <<tasks, store, loaded, port, pre, nops>>

\* Task.from_dict(t.to_dict()) for a Task t just constructed; `now` is the
\* clock at the second construction.
task_round_trip ==
    /\ call = NoCall
    /\ \E title \in CtorTitles, due_date \in CtorDueDates, priority \in CtorPriorities,
          status \in CtorStatuses, created_at \in CtorCreated, made \in Timestamps,
          now \in Timestamps :
         LET t == TaskInit(1, title, <<>>, due_date, priority, status, created_at, made)
             data == to_dict(t)
         IN  /\ call' = [op |-> "from_dict(to_dict)", task |-> t, now |-> now]
             /\ ret' = IF from_dict_raises(data) THEN <<>> ELSE <<from_dict(data, now)>>
    /\ UNCHANGED <<tasks, store, loaded, port, pre, nops>>

\* Task.from_dict(data).to_dict(); <<>> when from_dict raised
record_round_trip ==
    /\ call = NoCall
    /\ \E data \in Records, now \in Timestamps :
         /\ call' = [op |-> "to_dict(from_dict)", data |-> data, now |-> now]
         /\ ret' = IF from_dict_raises(data) THEN <<>>
                   ELSE <<to_dict(from_dict(data, now))>>
    /\ UNCHANGED <<tasks, store, loaded, port, pre, nops>>

NextTask ==
    \/ task_init
    \/ task_from_dict
    \/ task_round_trip
    \/ record_round_trip
    \/ display_menu

SpecTask == InitTask /\ [][NextTask]_vars

\* ------------------------------------------------------------------ claims
\* The call in hand was `op` and has returned.
Returned(op) == call.op = op

\* The one DatabaseHandler call the call in hand made, if it made one.
Wrote(name) == Len(port) = 1 /\ port[1].name = name
WroteOk(name) == Wrote(name) /\ port[1].ret
WroteFailed(name) == Wrote(name) /\ ~port[1].ret

\* The dict and the collection hold the same ids and, for each id, the
\* same seven field values.
InSync(d, coll) ==
    /\ \A i \in 1..Len(coll) :
         /\ "task_id" \in DOMAIN coll[i]
         /\ coll[i].task_id \in Keys(d)
         /\ coll[i] = to_dict(Item(d, coll[i].task_id))
    /\ \A k \in Keys(d) : Matching(coll, k) /= {}

\* C1: once the registry was loaded completely from the store, the dict and
\* the store hold the same ids and the same seven field values per id after
\* every add_task, update_task, mark_completed and delete_task call, whether
\* the store call of each succeeded or failed.
C1_MemoryEqualsStore == loaded = "complete" => InSync(tasks, store)

\* C2: add_task with valid arguments whose insert succeeded returns a Task
\* that echoes title, description, due date and priority, is Pending, has an
\* id that was not a key before; get_task_by_id on that id returns that
\* Task and the number of tasks has grown by exactly one.
C2_AddTaskReturnsNewTask ==
    (Returned("add_task") /\ WroteOk("insert_task")) =>
        /\ Len(ret) = 1
        /\ ret[1].title = call.title
        /\ ret[1].description = call.description
        /\ ret[1].due_date = call.due_date
        /\ ret[1].priority = call.priority
        /\ ret[1].status = "Pending"
        /\ ret[1].task_id \notin Keys(pre.tasks)
        /\ get_task_by_id(tasks, ret[1].task_id) = ret
        /\ Len(get_all_tasks(tasks)) = Len(get_all_tasks(pre.tasks)) + 1

\* an add_task of a title with surrounding whitespace into a registry that
\* already holds a task has succeeded
C2_Witness ==
    /\ Returned("add_task") /\ WroteOk("insert_task")
    /\ call.title /= Strip(call.title)
    /\ pre.tasks /= <<>>
    /\ Len(ret) = 1

\* C3: when insert_task fails, add_task returns None and the dict is what
\* it was before the call.
C3_InsertFailureLeavesMemory ==
    (Returned("add_task") /\ WroteFailed("insert_task")) =>
        /\ ret = <<>>
        /\ tasks = pre.tasks
        /\ port[1].task_id \notin Keys(tasks)

C3_Witness ==
    /\ Returned("add_task") /\ WroteFailed("insert_task")
    /\ pre.tasks /= <<>>

\* The arguments the claim calls invalid, stated without the code's checks.
BlankTitle(title) == \A i \in 1..Len(title) : IsSpace(title[i])

\* C4: add_task with an empty or whitespace-only title, a priority outside
\* {Low, Medium, High} or an unparseable due date returns None, leaves the
\* dict (and its count) unchanged and calls no DatabaseHandler operation.
C4_InvalidAddHasNoEffect ==
    (/\ Returned("add_task")
     /\ \/ BlankTitle(call.title)
        \/ call.priority \notin {"Low", "Medium", "High"}
        \/ ~StrptimeOk(call.due_date)) =>
        /\ ret = <<>>
        /\ tasks = pre.tasks
        /\ Len(tasks) = Len(pre.tasks)
        /\ port = <<>>
        /\ store = pre.store

\* a whitespace-only title was given with an otherwise valid request
C4_Witness ==
    /\ Returned("add_task")
    /\ call.title /= <<>> /\ BlankTitle(call.title)
    /\ call.priority = "Low" /\ StrptimeOk(call.due_date)
    /\ pre.tasks /= <<>>
    /\ ret = <<>>

\* A value the claims call invalid for a field update_task sets, stated
\* without the setters.
InvalidValue(field, value) ==
    CASE field = "title" -> BlankTitle(value)
      [] field = "description" -> FALSE
      [] field = "due_date" -> ~StrptimeOk(value)
      [] field = "priority" -> value \notin {"Low", "Medium", "High"}
      [] field = "status" -> value \notin {"Pending", "In Progress", "Completed"}

\* the fields of the claims' updateTask that the call in hand supplies
Supplied == DOMAIN call.kwargs \cap {"title", "description", "due_date", "priority", "status"}

\* the call in hand is update_task on an id that was a key of the dict
UpdatedKnown == Returned("update_task") /\ call.task_id \in Keys(pre.tasks)

\* C5: an update_task that supplies at least one invalid value changes no
\* field of the Task in the dict, the valid fields of the same call
\* included, and sends no update to the store.
C5_InvalidUpdateChangesNothing ==
    (UpdatedKnown /\ \E f \in Supplied : InvalidValue(f, call.kwargs[f])) =>
        /\ ret = FALSE
        /\ Item(tasks, call.task_id) = Item(pre.tasks, call.task_id)
        /\ port = <<>>

\* C6: when every supplied value is valid and the store's update fails or
\* returns False, update_task returns False and the Task in the dict has
\* the field values it had before the call.
C6_FailedWriteLeavesMemory ==
    (/\ UpdatedKnown
     /\ Supplied /= {}
     /\ \A f \in Supplied : ~InvalidValue(f, call.kwargs[f])
     /\ WroteFailed("update_task")) =>
        /\ ret = FALSE
        /\ Item(tasks, call.task_id) = Item(pre.tasks, call.task_id)

\* C7: update_task on an id that is not a key of the dict returns False,
\* leaves the dict unchanged and calls no DatabaseHandler operation.
C7_UnknownIdUpdateIsNoOp ==
    (Returned("update_task") /\ call.task_id \notin Keys(pre.tasks)) =>
        /\ ret = FALSE
        /\ tasks = pre.tasks
        /\ port = <<>>
        /\ store = pre.store

\* valid fields were supplied for an id the dict does not hold, while the
\* store holds a document of that id
C7_Witness ==
    /\ Returned("update_task") /\ call.task_id \notin Keys(pre.tasks)
    /\ Supplied /= {} /\ \A f \in Supplied : ~InvalidValue(f, call.kwargs[f])
    /\ Matching(pre.store, call.task_id) /= {}
    /\ ret = FALSE

\* C8: update_task on an existing id with none of its five fields supplied
\* returns False, changes no field of the Task and does not call the store.
C8_EmptyUpdateIsNoOp ==
    (UpdatedKnown /\ Supplied = {}) =>
        /\ ret = FALSE
        /\ tasks = pre.tasks
        /\ port = <<>>
        /\ store = pre.store

\* only a keyword update_task does not look for was supplied
C8_Witness ==
    /\ UpdatedKnown /\ Supplied = {}
    /\ DOMAIN call.kwargs /= {}
    /\ ret = FALSE

\* C9: mark_completed(id) on an existing Pending task whose store update
\* succeeded returns True, sets status to Completed, leaves every other
\* field of that task and every other task unchanged, and ends in the state
\* update_task(id, status='Completed') ends in.
C9_MarkCompletedSetsOnlyStatus ==
    (/\ Returned("mark_completed")
     /\ call.task_id \in Keys(pre.tasks)
     /\ Item(pre.tasks, call.task_id).status = "Pending"
     /\ WroteOk("update_task")) =>
        LET u == UpdateTaskResult(pre.tasks, pre.store, call.task_id,
                                  [k \in {"status"} |-> "Completed"], FALSE)
        IN  /\ ret = TRUE
            /\ Len(tasks) = Len(pre.tasks)
            /\ \A i \in 1..Len(tasks) :
                 IF pre.tasks[i].task_id = call.task_id
                 THEN tasks[i] = [pre.tasks[i] EXCEPT !.status = "Completed"]
                 ELSE tasks[i] = pre.tasks[i]
            /\ tasks = u.tasks /\ store = u.store /\ ret = u.ret

\* a Pending task was marked completed in a registry holding another task
C9_Witness ==
    /\ Returned("mark_completed")
    /\ call.task_id \in Keys(pre.tasks)
    /\ Item(pre.tasks, call.task_id).status = "Pending"
    /\ WroteOk("update_task")
    /\ Len(pre.tasks) = 2
    /\ ret = TRUE

\* C10: delete_task of an id in the dict whose store delete succeeded
\* returns True; afterwards get_task_by_id(id) is None, get_all_tasks holds
\* no task of that id, there is exactly one task less, and every other
\* entry is as it was.
C10_DeleteRemovesExactlyThatTask ==
    (/\ Returned("delete_task")
     /\ call.task_id \in Keys(pre.tasks)
     /\ WroteOk("delete_task")) =>
        /\ ret = TRUE
        /\ get_task_by_id(tasks, call.task_id) = <<>>
        /\ \A i \in 1..Len(get_all_tasks(tasks)) :
             get_all_tasks(tasks)[i].task_id /= call.task_id
        /\ Len(get_all_tasks(tasks)) = Len(get_all_tasks(pre.tasks)) - 1
        /\ Keys(tasks) = Keys(pre.tasks) \ {call.task_id}
        /\ \A k \in Keys(tasks) : Item(tasks, k) = Item(pre.tasks, k)

\* the first of two tasks was deleted
C10_Witness ==
    /\ Returned("delete_task")
    /\ WroteOk("delete_task")
    /\ Len(pre.tasks) = 2 /\ pre.tasks[1].task_id = call.task_id
    /\ ret = TRUE

\* C11: delete_task of an id that is not a key of the dict returns False
\* without calling the store; delete_task of a key whose store delete fails
\* or finds no document returns False and the entry is still in the dict,
\* unchanged.
C11_FailedDeleteLeavesMemory ==
    /\ (Returned("delete_task") /\ call.task_id \notin Keys(pre.tasks)) =>
          /\ ret = FALSE
          /\ port = <<>>
          /\ tasks = pre.tasks
          /\ store = pre.store
    /\ (/\ Returned("delete_task")
        /\ call.task_id \in Keys(pre.tasks)
        /\ WroteFailed("delete_task")) =>
          /\ ret = FALSE
          /\ call.task_id \in Keys(tasks)
          /\ tasks = pre.tasks

\* the store refused the delete of a task the dict holds
C11_Witness ==
    /\ Returned("delete_task")
    /\ call.task_id \in Keys(pre.tasks)
    /\ WroteFailed("delete_task")
    /\ ret = FALSE

\* what the data model calls a valid Task
ValidTask(task) ==
    /\ task.title /= <<>>
    /\ task.priority \in {"Low", "Medium", "High"}
    /\ task.status \in {"Pending", "In Progress", "Completed"}
    /\ StrptimeOk(task.due_date)

\* C12: in every state of the registry, after the load from any store
\* contents and any add, update or delete, every Task it holds has a
\* non-empty title, a priority in {Low, Medium, High}, a status in
\* {Pending, In Progress, Completed} and a due date that parses.
C12_HeldTasksAreValid == \A i \in 1..Len(tasks) : ValidTask(tasks[i])

\* C13: Task(...) and Task.from_dict(record) given an invalid priority, an
\* invalid status or an unparseable due date raise a validation error, as
\* the setters do: no Task comes out of such input.
C13_InvalidInputYieldsNoTask ==
    /\ (/\ Returned("Task")
        /\ \/ InvalidValue("priority", call.priority)
           \/ InvalidValue("status", call.status)
           \/ InvalidValue("due_date", call.due_date)) => ret = <<>>
    /\ (/\ Returned("from_dict")
        /\ {"priority", "status", "due_date"} \subseteq DOMAIN call.data
        /\ \/ InvalidValue("priority", call.data.priority)
           \/ InvalidValue("status", call.data.status)
           \/ InvalidValue("due_date", call.data.due_date)) => ret = <<>>

\* the calls a constructed TaskManager accepts
RegistryCalls == {"add_task", "update_task", "mark_completed", "delete_task"}

\* C14: when the initial load cannot be completed (get_all_tasks fails, or
\* from_dict fails on a record) the construction of the registry fails: no
\* call is ever served by a registry that holds only a part, or none, of the
\* records of the store.
C14_FailedLoadIsFatal ==
    (/\ call.op \in RegistryCalls
     /\ \E i \in 1..Len(pre.store) : pre.store[i].task_id \notin Keys(pre.tasks)) =>
        loaded = "complete"

\* C15: task ids are unique across the system: no two documents of the
\* store share a task_id, and add_task never inserts a document whose
\* task_id a document of the store already has, whatever failed at load
\* time or during writes.
C15_IdsUniqueInStore ==
    /\ \A i, j \in 1..Len(store) : i /= j => store[i].task_id /= store[j].task_id
    /\ (Returned("add_task") /\ WroteOk("insert_task")) =>
          Matching(pre.store, port[1].task_id) = {}

\* C16: a task keeps its id and its created_at from the call that put it
\* into the dict to the call that deletes it, whatever add_task,
\* update_task, mark_completed and delete_task calls are made on any id;
\* update_task changes neither of them even when a created_at keyword is
\* among its arguments.
C16_IdAndCreatedAtImmutable ==
    call.op \in RegistryCalls =>
        /\ \A k \in Keys(pre.tasks) \cap Keys(tasks) :
             Item(tasks, k).created_at = Item(pre.tasks, k).created_at
        /\ call.op \in {"update_task", "mark_completed"} =>
             /\ Len(tasks) = Len(pre.tasks)
             /\ \A i \in 1..Len(tasks) :
                  /\ tasks[i].task_id = pre.tasks[i].task_id
                  /\ tasks[i].created_at = pre.tasks[i].created_at
        /\ call.op = "add_task" =>
             \A i \in 1..Len(pre.tasks) :
                  /\ tasks[i].task_id = pre.tasks[i].task_id
                  /\ tasks[i].created_at = pre.tasks[i].created_at

\* an update_task that carried another created_at beside a valid title has
\* returned True
C16_Witness ==
    /\ UpdatedKnown
    /\ {"created_at", "title"} \subseteq DOMAIN call.kwargs
    /\ call.kwargs.created_at /= Item(pre.tasks, call.task_id).created_at
    /\ Len(pre.tasks) = 2
    /\ ret = TRUE


ReadCalls == {"get_all_tasks", "get_task_by_id", "filter_tasks", "sort_tasks"}

\* what a read returns, from the registry as it was and the arguments alone
ReadValue ==
    CASE call.op = "get_all_tasks" -> get_all_tasks(pre.tasks)
      [] call.op = "get_task_by_id" -> get_task_by_id(pre.tasks, call.task_id)
      [] call.op = "filter_tasks" -> filter_tasks(pre.tasks, call.filter_by, call.filter_value)
      [] call.op = "sort_tasks" -> sort_tasks(call.tasks, call.sort_by, call.reverse)

\* C17: get_all_tasks, get_task_by_id, filter_tasks and sort_tasks make no
\* DatabaseHandler call, leave the registry and the store as they were, and
\* return a value fixed by the registry (for sort_tasks, by the given list).
C17_ReadsTouchNothing ==
    call.op \in ReadCalls =>
        /\ port = <<>>
        /\ tasks = pre.tasks
        /\ store = pre.store
        /\ ret = ReadValue

\* a filter answered from an empty registry while the store holds documents
C17_Witness ==
    /\ Returned("filter_tasks")
    /\ loaded = "find_failed"
    /\ store /= <<>>
    /\ ret = <<>>
    /\ port = <<>>

SameKey(a, b) == SortValue(a, call.sort_by) = SortValue(b, call.sort_by)

\* a comes before b in the list
Precedes(list, a, b) ==
    \E p, q \in 1..Len(list) : p < q /\ list[p] = a /\ list[q] = b

\* C18: sort_tasks is stable, ascending and descending: two tasks with equal
\* comparison values come out in the order they went in; [A, B, C] due
\* 01-10, 01-05, 01-10 gives [B, A, C] ascending and [A, C, B] descending.
C18_SortIsStable ==
    Returned("sort_tasks") =>
        /\ \A i, j \in 1..Len(call.tasks) :
             (i < j /\ SameKey(call.tasks[i], call.tasks[j])) =>
                 Precedes(ret, call.tasks[i], call.tasks[j])
        /\ (call.tasks = <<Task_A, Task_B, Task_C>> /\ call.sort_by = "due_date") =>
             ret = IF call.reverse THEN <<Task_A, Task_C, Task_B>>
                   ELSE <<Task_B, Task_A, Task_C>>

C18_Witness ==
    /\ Returned("sort_tasks")
    /\ call.tasks = <<Task_A, Task_B, Task_C>>
    /\ call.sort_by = "due_date"
    /\ call.reverse
    /\ ret = <<Task_A, Task_C, Task_B>>

\* the same tasks, each as often
IsPermutation(out, in) ==
    /\ Len(out) = Len(in)
    /\ \A t \in Range(in) \cup Range(out) :
         Cardinality({i \in 1..Len(in) : in[i] = t}) =
         Cardinality({i \in 1..Len(out) : out[i] = t})

\* the comparison values never fall (ascending) or never rise (descending)
KeysInOrder(out, sort_by, reverse) ==
    \A i \in 1..(Len(out) - 1) :
        LET x == SortValue(out[i], sort_by)
            y == SortValue(out[i + 1], sort_by)
        IN  IF reverse THEN ~ValueLess(sort_by, x, y) ELSE ~ValueLess(sort_by, y, x)

\* the calendar day a due date names, as yyyymmdd
DayOf(value) ==
    LET p == CHOOSE p \in 7..8 : value[p] = "-" IN
    10000 * IntOf(SubSeq(value, 1, 4)) + 100 * IntOf(SubSeq(value, 6, p - 1))
        + IntOf(LStrip(SubSeq(value, p + 1, Len(value))))

LatestFirst(out) ==
    \A i \in 1..(Len(out) - 1) : DayOf(out[i].due_date) >= DayOf(out[i + 1].due_date)

\* the order sort_tasks promises, on the comparison values as the code
\* compares them
C19_SortedByComparisonValues ==
    Returned("sort_tasks") =>
        /\ IsPermutation(ret, call.tasks)
        /\ KeysInOrder(ret, call.sort_by, call.reverse)
        /\ call.tasks = get_all_tasks(tasks)

\* C19: sort_tasks returns a permutation of its input whose comparison
\* values never fall (never rise when descending), Low < Medium < High and
\* dates as strings, so that descending due_date is latest first; the input
\* list is as it was.
C19_SortedPermutationLatestFirst ==
    /\ C19_SortedByComparisonValues
    /\ (Returned("sort_tasks") /\ call.sort_by = "due_date" /\ call.reverse) =>
          LatestFirst(ret)

FieldOf(task, field) ==
    CASE field = "priority" -> task.priority
      [] field = "status" -> task.status
      [] field = "due_date" -> task.due_date

\* the positions of the list whose field has the value
MatchingAt(list, field, value) == {i \in 1..Len(list) : FieldOf(list[i], field) = value}

\* the k-th smallest member of a set of positions
Nth(S, k) == CHOOSE i \in S : Cardinality({j \in S : j < i}) = k - 1

\* C20: for priority, status or due_date and a non-empty value, filter_tasks
\* returns exactly the tasks of get_all_tasks() whose field equals the value,
\* in the order of get_all_tasks().
C20_FilterReturnsExactlyMatches ==
    (/\ Returned("filter_tasks")
     /\ call.filter_by \in {"priority", "status", "due_date"}
     /\ ValueTruthy(call.filter_by, call.filter_value)) =>
        LET all == get_all_tasks(pre.tasks)
            S == MatchingAt(all, call.filter_by, call.filter_value)
        IN  /\ Len(ret) = Cardinality(S)
            /\ \A k \in 1..Len(ret) : ret[k] = all[Nth(S, k)]

\* two of three tasks match, with the third between them
C20_Witness ==
    /\ Returned("filter_tasks")
    /\ pre.tasks = <<Task_A, Task_B, Task_C>>
    /\ call.filter_by = "due_date"
    /\ ret = <<Task_A, Task_C>>


\* the value argument is None or the empty string
ValueAbsent ==
    IF call.filter_by = "due_date" THEN call.filter_value \in {None, <<>>}
    ELSE call.filter_value = ""

\* C21: filter_tasks with no field, or with no value or an empty one,
\* returns every task of the registry in the order of get_all_tasks().
C21_AbsentFilterPassesThrough ==
    (Returned("filter_tasks") /\ (call.filter_by = "" \/ ValueAbsent)) =>
        ret = get_all_tasks(pre.tasks)

\* a field with an empty value on a registry of three
C21_Witness ==
    /\ Returned("filter_tasks")
    /\ call.filter_by = "priority"
    /\ call.filter_value = ""
    /\ Len(pre.tasks) = 3
    /\ ret = pre.tasks


\* a timestamp as datetime.now().strftime('%Y-%m-%d %H:%M:%S') writes it
IsTimestamp(s) ==
    /\ Len(s) = 19
    /\ StrptimeOk(SubSeq(s, 1, 10))
    /\ s[11] = " " /\ s[14] = ":" /\ s[17] = ":"
    /\ \A i \in {12, 13, 15, 16, 18, 19} : IsDigit(s[i])

\* a record of exactly the seven fields with valid values
ValidRecord(r) ==
    /\ DOMAIN r = TaskFields
    /\ ValidTask(r)
    /\ IsTimestamp(r.created_at)

\* C22: to_dict and from_dict are inverses of each other: a valid Task comes
\* back from from_dict(to_dict(t)) with its seven fields, and a valid record
\* comes back from to_dict(from_dict(r)) as it was.
C22_RoundTrip ==
    /\ (Returned("from_dict(to_dict)") /\ ValidTask(call.task)
            /\ IsTimestamp(call.task.created_at)) =>
          (ret /= <<>> /\ \A f \in TaskFields : ret[1][f] = call.task[f])
    /\ (Returned("to_dict(from_dict)") /\ ValidRecord(call.data)) =>
          ret = <<call.data>>

\* a Task made at one time goes through a record and is rebuilt at another
C22_Witness ==
    /\ Returned("from_dict(to_dict)")
    /\ ValidTask(call.task)
    /\ call.task.created_at = Now_1
    /\ call.now = Now_2
    /\ ret = <<call.task>>

\* a valid record goes through a Task and comes back
C22_WitnessRecord ==
    /\ Returned("to_dict(from_dict)")
    /\ ValidRecord(call.data)
    /\ call.now = Now_2
    /\ ret = <<call.data>>


InIdLoop == call.op = "add_task:generate_id"

\* an add_task that went through the loop has returned
LoopReturned == Returned("add_task") /\ "tries" \in DOMAIN call

\* the id the loop ended on was no key, and every entry the dict held is
\* still there as it was
NoKeyOverwritten ==
    LoopReturned =>
        /\ call.task_id \notin Keys(pre.tasks)
        /\ Len(tasks) >= Len(pre.tasks)
        /\ \A i \in 1..Len(pre.tasks) : tasks[i] = pre.tasks[i]

\* with a colliding candidate in hand the next step draws again and stores
\* nothing
RegeneratesOnCollision ==
    (InIdLoop /\ Collides(tasks, call.task_id)) =>
        (InIdLoop' /\ tasks' = tasks /\ store' = store)

\* C23: the id loop of add_task draws again on every collision, however
\* many in a row, never puts the new Task under a key the dict already has,
\* and ends on an unused id whenever there is one and ids are drawn fairly.
C23_IdLoopRegeneratesAndEnds ==
    /\ []NoKeyOverwritten
    /\ [][RegeneratesOnCollision]_vars
    /\ (InIdLoop /\ Keys(tasks) /= Ids) ~> LoopReturned

\* the Task was stored after MaxTries candidates, all but the last colliding
C23_Witness ==
    /\ LoopReturned
    /\ call.tries = MaxTries
    /\ WroteOk("insert_task")
    /\ Len(pre.tasks) >= 1
    /\ tasks = Append(pre.tasks, ret[1])


KnownPriority(task) == task.priority \in {"Low", "Medium", "High"}

\* C24: sorted by priority, a task whose priority is none of Low, Medium,
\* High comes before every task that has one of them when ascending, after
\* all of them when descending, and such tasks keep their input order.
C24_UnknownPriorityRanksZero ==
    (Returned("sort_tasks") /\ call.sort_by = "priority") =>
        /\ \A p, q \in 1..Len(ret) :
             (~KnownPriority(ret[p]) /\ KnownPriority(ret[q])) =>
                 IF call.reverse THEN q < p ELSE p < q
        /\ \A i, j \in 1..Len(call.tasks) :
             (i < j /\ ~KnownPriority(call.tasks[i]) /\ ~KnownPriority(call.tasks[j])) =>
                 Precedes(ret, call.tasks[i], call.tasks[j])

\* two unknown priorities around a High one, ascending
C24_Witness ==
    /\ Returned("sort_tasks")
    /\ call.sort_by = "priority"
    /\ ~call.reverse
    /\ call.tasks = <<Task_F, Task_A, Task_E>>
    /\ ret = <<Task_F, Task_E, Task_A>>

\* the same list, descending
C24_WitnessDescending ==
    /\ Returned("sort_tasks")
    /\ call.sort_by = "priority"
    /\ call.reverse
    /\ call.tasks = <<Task_F, Task_A, Task_E>>
    /\ ret = <<Task_A, Task_F, Task_E>>


\* C25: after an update_task that returned True, every supplied field of
\* the Task in the dict has the value that was written to the store for it,
\* titles and descriptions with leading or trailing whitespace included.
C25_MemoryHoldsWhatWasWritten ==
    (UpdatedKnown /\ ret = TRUE) =>
        /\ WroteOk("update_task")
        /\ \A f \in Supplied :
             /\ Item(tasks, call.task_id)[f] = port[1].data[f]
             /\ Item(tasks, call.task_id)[f] = store[FirstMatch(store, call.task_id)][f]


\* the document of the store the call in hand addresses, before the call
StoredBefore == pre.store[FirstMatch(pre.store, call.task_id)]

\* update_task returns True exactly when the id is a key, a field is
\* supplied, every supplied value is valid and the store reports a change;
\* and the store reports one only if a document matched and was changed
C26_TrueExactlyWhenStoreChanged ==
    Returned("update_task") =>
        /\ ret = TRUE <=>
             /\ call.task_id \in Keys(pre.tasks)
             /\ Supplied /= {}
             /\ \A f \in Supplied : ~InvalidValue(f, call.kwargs[f])
             /\ WroteOk("update_task")
        /\ WroteOk("update_task") =>
             (Matching(pre.store, call.task_id) /= {} /\ store /= pre.store)

\* every supplied value is the one the store already holds
SuppliesStoredValues ==
    /\ UpdatedKnown
    /\ Supplied /= {}
    /\ Matching(pre.store, call.task_id) /= {}
    /\ \A f \in Supplied : f \in DOMAIN StoredBefore /\ call.kwargs[f] = StoredBefore[f]

\* mark_completed on a task the store holds as Completed
CompletesCompleted ==
    /\ Returned("mark_completed")
    /\ call.task_id \in Keys(pre.tasks)
    /\ Matching(pre.store, call.task_id) /= {}
    /\ "status" \in DOMAIN StoredBefore
    /\ StoredBefore.status = "Completed"

\* C26: update_task returns True exactly when the id exists, a field is
\* supplied, all supplied values are valid and the store's update reports a
\* matched and changed document; so an update that supplies only the values
\* the store already holds, mark_completed on a Completed task included,
\* returns False and leaves dict and store as they were.
C26_TrueIffChangedElseUntouched ==
    /\ C26_TrueExactlyWhenStoreChanged
    /\ (SuppliesStoredValues \/ CompletesCompleted) =>
          /\ ret = FALSE
          /\ tasks = pre.tasks
          /\ store = pre.store

====
